---- MODULE Spec2Model ----
(***************************************************************************)
(* Trade simulator and statistics engine of the backtester:                *)
(* core/backtest_engine.py, its snapshot                                   *)
(* .history/core/backtest_engine_20241123234315.py (the report with the    *)
(* risk metrics), .history/strategies/base_strategy_20241122224034.py and  *)
(* the batch of .history/gui/main_window_20241123224320.py.                *)
(*                                                                         *)
(* Spec is one run of the current engine, SpecSnapshot one run of the      *)
(* snapshot, SpecStats the statistics on given ledgers, SpecStore several  *)
(* runs and lookups on one engine, SpecBatch the batch of the main window, *)
(* SpecStatsSnapshot the snapshot's statistics on given ledgers,           *)
(* SpecDefault one run with the sizing a new strategy is built with,       *)
(* SpecSignals two generate_signals calls on one strategy object           *)
(* (strategies/flawless_victory_strategy.py, custom_balanced_strategy.py)  *)
(* and SpecFlawless one run of the engine on a FlawlessVictoryStrategy.    *)
(*                                                                         *)
(* Numbers are exact rationals [num, den] in lowest terms with den > 0.    *)
(* den = 0 stands for the IEEE values numpy produces on a division by      *)
(* zero: num = 1 is +inf, num = -1 is -inf, num = 0 is nan.                *)
(* A bar's timestamp is its 1-based position in the series, one day apart. *)
(***************************************************************************)
EXTENDS Integers, Sequences, FiniteSets, TLC

\* ------------------------------------------------------------------ bounds
MaxBars == 3

\* -------------------------------------------------------------- arithmetic
Abs(x) == IF x < 0 THEN -x ELSE x

Sign(x) == IF x > 0 THEN 1 ELSE IF x < 0 THEN -1 ELSE 0

RECURSIVE GCD(_, _)
GCD(a, b) == IF b = 0 THEN a ELSE GCD(b, a % b)

Frac(n, d) ==
    IF d = 0 THEN [num |-> Sign(n), den |-> 0]
    ELSE LET s == Sign(d)
             g == GCD(Abs(n), Abs(d))
         IN  [num |-> (s * n) \div g, den |-> Abs(d) \div g]

R(n) == [num |-> n, den |-> 1]

RAdd(a, b) == Frac(a.num * b.den + b.num * a.den, a.den * b.den)

RSub(a, b) == Frac(a.num * b.den - b.num * a.den, a.den * b.den)

RMul(a, b) == Frac(a.num * b.num, a.den * b.den)

RDiv(a, b) == Frac(a.num * b.den, a.den * b.num)

RLt(a, b) == a.num * b.den < b.num * a.den

RGt(a, b) == RLt(b, a)

RLe(a, b) == a.num * b.den <= b.num * a.den /\ ~(a.den = 0 /\ a.num = 0) /\ ~(b.den = 0 /\ b.num = 0)

RAbs(a) == [num |-> Abs(a.num), den |-> a.den]

RMax(a, b) == IF RGt(b, a) THEN b ELSE a

RECURSIVE RSum(_)
RSum(s) == IF s = <<>> THEN R(0) ELSE RAdd(RSum(SubSeq(s, 1, Len(s) - 1)), s[Len(s)])

\* ------------------------------------------------------------------ inputs
Prices == {R(2), R(3)}

Signals == {R(1), R(-1), R(0), Frac(-1, 2)}

Rows == [Close : Prices, Signal : Signals]

RECURSIVE SeqsUpTo(_, _)
SeqsUpTo(S, n) ==
    IF n = 0 THEN {<<>>}
    ELSE LET prev == SeqsUpTo(S, n - 1)
         IN  prev \cup {Append(s, x) : s \in {p \in prev : Len(p) = n - 1}, x \in S}

DataFrames == SeqsUpTo(Rows, MaxBars)

Capitals == {R(0), R(100)}

PositionSizingMethod == {"Contract Size", "% of Equity", "# of Shares", "Dollar Amount"}

SizeValues == {R(0), R(100)}

Tickers == {"AAPL"}

StrategyNames == {"RSIStrategy"}

\* BaseStrategy.__init__: capital starts as the initial capital it is given
BaseStrategy(name, cap, method, value) ==
    [name |-> name, initial_capital |-> cap, position |-> R(0), capital |-> cap,
     position_sizing_method |-> method, position_size_value |-> value]

\* ------------------------------------------------------- position sizing
\* BaseStrategy.get_position_size: the engine passes only the price; the
\* capital it sizes on is the strategy object's own field
get_position_size(strategy, price) ==
    IF strategy.position_sizing_method = "Contract Size" THEN strategy.position_size_value
    ELSE IF strategy.position_sizing_method = "% of Equity"
         THEN RDiv(RDiv(RMul(strategy.capital, strategy.position_size_value), R(100)), price)
    ELSE IF strategy.position_sizing_method = "# of Shares" THEN strategy.position_size_value
    ELSE IF strategy.position_sizing_method = "Dollar Amount"
         THEN RDiv(strategy.position_size_value, price)
    ELSE R(0)

\* -------------------------------------------------------------- strategies
\* (strategies/flawless_victory_strategy.py and
\* strategies/custom_balanced_strategy.py). The indicator columns of a row
\* are carried as the outcome of the comparisons the loop makes on them:
\*   entry_cond  "buy" when the row meets the entry condition (Flawless
\*               Victory: buy_signal; Custom Balanced: uptrend and RSI below
\*               the oversold level), "sell" when it meets the opposite one
\*               (sell_signal; downtrend and RSI above the overbought level)
\*   exit_cond   "stop" when row['Low'] is at or below the stop of the open
\*               position, "take" when only row['High'] is at or above its
\*               target (Custom Balanced: the trailing stop of a short)
EntryConds == {"none", "buy", "sell"}

ExitConds == {"none", "stop", "take"}

\* a close below the lower band is the lower price, one above the upper band
\* the higher
StrategyRows ==
    {r \in [Close : Prices, entry_cond : EntryConds, exit_cond : ExitConds] :
        /\ r.entry_cond = "buy" => r.Close = R(2)
        /\ r.entry_cond = "sell" => r.Close = R(3)}

Versions == {1, 2, 3}

\* FlawlessVictoryStrategy.__init__
FlawlessVictoryStrategy(cap, version) ==
    [version |-> version, entry_price |-> R(0), stop_price |-> R(0),
     take_profit_price |-> R(0)]
       @@ BaseStrategy("FlawlessVictoryStrategy", cap, "% of Equity", R(100))

\* CustomBalancedStrategy.__init__ with its default trailing stop of 5%
CustomBalancedStrategy(cap) ==
    [entry_price |-> R(0), trailing_stop |-> R(0)]
       @@ BaseStrategy("CustomBalancedStrategy", cap, "% of Equity", R(100))

\* entry_price * (1 - pct / 100), pct given in thousandths of a percent
BelowBy(price, milli) == RMul(price, Frac(100000 - milli, 100000))

AboveBy(price, milli) == RMul(price, Frac(100000 + milli, 100000))

\* one pass of the loop of FlawlessVictoryStrategy.generate_signals: the
\* strategy object after the row and the Signal written for it
FlawlessStep(st, row) ==
    IF st.position = R(0)
    THEN IF row.entry_cond = "buy"
         THEN [strategy |->
                  [st EXCEPT !.position = get_position_size(st, row.Close),
                             !.entry_price = row.Close,
                             !.stop_price =
                                 IF st.version = 2 THEN BelowBy(row.Close, 6604)
                                 ELSE IF st.version = 3 THEN BelowBy(row.Close, 8882)
                                 ELSE @,
                             !.take_profit_price =
                                 IF st.version = 2 THEN AboveBy(row.Close, 2328)
                                 ELSE IF st.version = 3 THEN AboveBy(row.Close, 2317)
                                 ELSE @],
               Signal |-> R(1)]
         ELSE [strategy |-> st, Signal |-> R(0)]
    ELSE LET sold == \/ row.entry_cond = "sell"
                     \/ st.version \in {2, 3} /\ row.exit_cond \in {"stop", "take"}
         IN  IF sold
             THEN [strategy |-> [st EXCEPT !.position = R(0), !.entry_price = R(0),
                                           !.stop_price = R(0),
                                           !.take_profit_price = R(0)],
                   Signal |-> R(-1)]
             ELSE [strategy |-> st, Signal |-> R(0)]

\* one pass of the loop of CustomBalancedStrategy.generate_signals
CustomBalancedStep(st, row) ==
    IF st.position = R(0)
    THEN IF row.entry_cond = "buy"
         THEN [strategy |-> [st EXCEPT !.entry_price = row.Close,
                                       !.trailing_stop = BelowBy(row.Close, 5000),
                                       !.position = get_position_size(st, row.Close)],
               Signal |-> R(1)]
         ELSE IF row.entry_cond = "sell"
         THEN [strategy |-> [st EXCEPT !.entry_price = row.Close,
                                       !.trailing_stop = AboveBy(row.Close, 5000),
                                       !.position = get_position_size(st, row.Close)],
               Signal |-> R(-1)]
         ELSE [strategy |-> st, Signal |-> R(0)]
    ELSE IF RGt(st.position, R(0))
    THEN LET new_trail == BelowBy(row.Close, 5000)
             trailed == IF RGt(new_trail, st.trailing_stop)
                        THEN [st EXCEPT !.trailing_stop = new_trail] ELSE st
         IN  IF row.exit_cond = "stop"
             THEN [strategy |-> [trailed EXCEPT !.position = R(0), !.entry_price = R(0),
                                                !.trailing_stop = R(0)],
                   Signal |-> R(-1)]
             ELSE [strategy |-> trailed, Signal |-> R(0)]
    ELSE LET new_trail == AboveBy(row.Close, 5000)
             trailed == IF RLt(new_trail, st.trailing_stop)
                        THEN [st EXCEPT !.trailing_stop = new_trail] ELSE st
         IN  IF row.exit_cond = "take"
             THEN [strategy |-> [trailed EXCEPT !.position = R(0), !.entry_price = R(0),
                                                !.trailing_stop = R(0)],
                   Signal |-> R(1)]
             ELSE [strategy |-> trailed, Signal |-> R(0)]

\* mutant of StrategyStep: the row is judged as if the strategy were flat
StrategyStepFromFlat(st, row) ==
    LET flat == [st EXCEPT !.position = R(0)]
        step == IF st.name = "FlawlessVictoryStrategy" THEN FlawlessStep(flat, row)
                ELSE CustomBalancedStep(flat, row)
    IN  step

StrategyStep(st, row) ==
    IF st.name = "FlawlessVictoryStrategy" THEN FlawlessStep(st, row)
    ELSE CustomBalancedStep(st, row)

\* generate_signals over the first n rows of the bars: the strategy object
\* it leaves and df, each row with its Signal and, as history, the
\* strategy's position after the row
RECURSIVE SignalWalk(_, _, _)
SignalWalk(st, bars, n) ==
    IF n = 0 THEN [strategy |-> st, df |-> <<>>]
    ELSE LET before == SignalWalk(st, bars, n - 1)
             step == StrategyStep(before.strategy, bars[n])
         IN  [strategy |-> step.strategy,
              df |-> Append(before.df, [Close |-> bars[n].Close, Signal |-> step.Signal,
                                        strategy_position |-> step.strategy.position])]

\* -------------------------------------------------------------- statistics
\* dict.update: the keys of u are written over t
update(t, u) == u @@ t

SelectClosed(ts) == SelectSeq(ts, LAMBDA t : "exit_date" \in DOMAIN t)

\* mutant of winning_trades: a break-even trade counts as a win
winning_trades_or_even(closed) == SelectSeq(closed, LAMBDA t : ~RLt(t.profit, R(0)))

winning_trades(closed) == SelectSeq(closed, LAMBDA t : RGt(t.profit, R(0)))

\* mutant of losing_trades: a break-even trade is not a loss
losing_trades_strict(closed) == SelectSeq(closed, LAMBDA t : RLt(t.profit, R(0)))

losing_trades(closed) == SelectSeq(closed, LAMBDA t : RLe(t.profit, R(0)))

Profits(ts) == [i \in 1..Len(ts) |-> ts[i].profit]

\* mutant of gross_loss: no value for a ledger without losing trades
gross_loss_undefaulted(losing) == RAbs(RSum(Profits(losing)))

\* gross_loss = abs(sum(t['profit'] for t in losing_trades)) if losing_trades else 1
gross_loss(losing) == IF losing # <<>> THEN RAbs(RSum(Profits(losing))) ELSE R(1)

\* mutant of equity_curve: the curve starts from 0, not from initial_capital
RECURSIVE equity_curve_from_zero(_, _)
equity_curve_from_zero(ic, ts) ==
    IF ts = <<>> THEN <<>>
    ELSE LET prev == equity_curve_from_zero(ic, SubSeq(ts, 1, Len(ts) - 1))
             before == IF prev = <<>> THEN R(0) ELSE prev[Len(prev)]
         IN  Append(prev, RAdd(before, ts[Len(ts)].profit))

\* first loop of _calculate_max_drawdown: equity after each trade
RECURSIVE equity_curve(_, _)
equity_curve(ic, ts) ==
    IF ts = <<>> THEN <<>>
    ELSE LET prev == equity_curve(ic, SubSeq(ts, 1, Len(ts) - 1))
             before == IF prev = <<>> THEN ic ELSE prev[Len(prev)]
         IN  Append(prev, RAdd(before, ts[Len(ts)].profit))

\* mutant of DrawdownWalk: the drawdown of the last point, not the largest
RECURSIVE DrawdownWalkLast(_, _, _)
DrawdownWalkLast(ic, curve, n) ==
    IF n = 0 THEN [peak |-> ic, max_drawdown |-> R(0)]
    ELSE LET before == DrawdownWalkLast(ic, curve, n - 1)
             equity == curve[n]
             peak == IF RGt(equity, before.peak) THEN equity ELSE before.peak
             drawdown == RMul(RDiv(RSub(peak, equity), peak), R(100))
         IN  [peak |-> peak, max_drawdown |-> drawdown]

\* second loop of _calculate_max_drawdown: [peak, max_drawdown] after the
\* first n equity points
RECURSIVE DrawdownWalk(_, _, _)
DrawdownWalk(ic, curve, n) ==
    IF n = 0 THEN [peak |-> ic, max_drawdown |-> R(0)]
    ELSE LET before == DrawdownWalk(ic, curve, n - 1)
             equity == curve[n]
             peak == IF RGt(equity, before.peak) THEN equity ELSE before.peak
             drawdown == RMul(RDiv(RSub(peak, equity), peak), R(100))
         IN  [peak |-> peak, max_drawdown |-> RMax(before.max_drawdown, drawdown)]

\* mutant of _calculate_max_drawdown: the peak starts at the first equity point
_calculate_max_drawdown_first_point(ic, ts) ==
    IF ts = <<>> THEN R(0)
    ELSE LET curve == equity_curve(ic, ts)
         IN  DrawdownWalk(curve[1], curve, Len(curve)).max_drawdown

_calculate_max_drawdown(ic, ts) ==
    IF ts = <<>> THEN R(0)
    ELSE LET curve == equity_curve(ic, ts)
         IN  DrawdownWalk(ic, curve, Len(curve)).max_drawdown

ZeroReport ==
    [net_profit |-> R(0), total_trades |-> 0, win_rate |-> R(0), profit_factor |-> R(0),
     max_drawdown |-> R(0), avg_trade |-> R(0), avg_bars_in_trade |-> R(0)]

RECURSIVE SumDays(_)
SumDays(closed) ==
    IF closed = <<>> THEN 0
    ELSE LET t == closed[Len(closed)]
         IN  SumDays(SubSeq(closed, 1, Len(closed) - 1)) + (t.exit_date - t.entry_date)

_calculate_statistics(ic, ts, final_capital) ==
    IF ts = <<>> THEN ZeroReport
    ELSE LET closed_trades == SelectClosed(ts) IN
         IF closed_trades = <<>> THEN ZeroReport
         ELSE LET winning == winning_trades(closed_trades)
                  losing == losing_trades(closed_trades)
                  gross_profit == RSum(Profits(winning))
                  n == Len(closed_trades)
              IN  [net_profit |-> RSub(final_capital, ic),
                   total_trades |-> n,
                   win_rate |-> RMul(Frac(Len(winning), n), R(100)),
                   profit_factor |-> IF gross_loss(losing) # R(0)
                                     THEN RDiv(gross_profit, gross_loss(losing))
                                     ELSE Frac(1, 0),
                   max_drawdown |-> _calculate_max_drawdown(ic, closed_trades),
                   avg_trade |-> RDiv(RSub(final_capital, ic), R(n)),
                   avg_bars_in_trade |-> Frac(SumDays(closed_trades), n)]

EmptyDict == [k \in {} |-> <<>>]

\* ---------------------------------- statistics of the 2024-11-23 snapshot
\* (.history/core/backtest_engine_20241123234315.py: the report with the
\* return, risk and distribution metrics). A metric whose value is not a
\* rational (a root or a fractional power) is kept as the expression's name
\* with its exactly computed operands.
Sym(expr, operands) == [expr |-> expr, of |-> operands]

IsNaN(a) == a.den = 0 /\ a.num = 0

_get_empty_stats == [net_profit |-> R(0), total_trades |-> 0, win_rate |-> R(0)]

RECURSIVE Insert(_, _)
Insert(sorted, x) ==
    IF sorted = <<>> THEN <<x>>
    ELSE IF RLt(x, sorted[1]) THEN <<x>> \o sorted
    ELSE <<sorted[1]>> \o Insert(Tail(sorted), x)

RECURSIVE Sorted(_)
Sorted(s) == IF s = <<>> THEN <<>> ELSE Insert(Sorted(Tail(s)), s[1])

Mean(s) == RDiv(RSum(s), R(Len(s)))

\* Series.quantile(q), linear interpolation, q = qn / qd
Quantile(s, qn, qd) ==
    LET x == Sorted(s)
        h == (Len(s) - 1) * qn
        lo == h \div qd + 1
        hi == IF lo < Len(s) THEN lo + 1 ELSE lo
    IN  RAdd(x[lo], RMul(Frac(h % qd, qd), RSub(x[hi], x[lo])))

\* Series.median / np.median
Median(s) ==
    LET x == Sorted(s)
        n == Len(s)
    IN  IF n % 2 = 1 THEN x[(n + 1) \div 2]
        ELSE RDiv(RAdd(x[n \div 2], x[n \div 2 + 1]), R(2))

\* equity after each trade, then pct_change().dropna(): the first point has
\* no predecessor, a 0/0 change is nan and dropped
calculate_returns_series(ic, ts) ==
    LET curve == equity_curve(ic, ts)
        change == [i \in 1..(Len(curve) - 1) |-> RSub(RDiv(curve[i + 1], curve[i]), R(1))]
    IN  SelectSeq(change, LAMBDA r : ~IsNaN(r))

_calculate_var(returns_series, qn, qd) ==
    IF returns_series = <<>> THEN R(0) ELSE RAbs(Quantile(returns_series, qn, qd))

\* the mean of an empty selection is nan, and abs(nan) is nan
_calculate_cvar(returns_series, qn, qd) ==
    IF returns_series = <<>> THEN R(0)
    ELSE LET var == _calculate_var(returns_series, qn, qd)
             tail == SelectSeq(returns_series, LAMBDA r : RLe(r, RSub(R(0), var)))
         IN  RAbs(Mean(tail))

\* strftime('%Y-%m') of a day number: the series starts on the first of a
\* 31-day month
month_key(date) == (date - 1) \div 31 + 1

_calculate_monthly_returns(ts) ==
    LET months == {month_key(ts[i].exit_date) : i \in 1..Len(ts)}
    IN  [m \in months |->
            RSum(Profits(SelectSeq(ts, LAMBDA t : month_key(t.exit_date) = m)))]

total_days(ts) == ts[Len(ts)].exit_date - ts[1].entry_date

_calculate_cagr(ic, ts, final_capital) ==
    IF ts = <<>> THEN R(0)
    ELSE IF Frac(total_days(ts), 365) = R(0) THEN R(0)
    ELSE Sym("((final_capital / initial_capital) ** (1 / years) - 1) * 100",
             <<RDiv(final_capital, ic), Frac(365, total_days(ts))>>)

_calculate_profit_distribution(ts) ==
    IF ts = <<>> THEN EmptyDict
    ELSE [mean |-> Mean(Profits(ts)),
          median |-> Median(Profits(ts)),
          std |-> Sym("np.std", Profits(ts)),
          skew |-> Sym("stats.skew", Profits(ts)),
          kurtosis |-> Sym("stats.kurtosis", Profits(ts))]

_analyze_market_environment(ts) ==
    IF ts = <<>> THEN EmptyDict
    ELSE LET none == [trade_count |-> 0, win_rate |-> R(0), avg_profit |-> R(0)]
         IN  [bull_market |-> none, bear_market |-> none, sideways_market |-> none]

\* Series.std() is 0: at least two values, all equal (one value or none
\* gives nan, which is != 0)
StdIsZero(s) == Len(s) >= 2 /\ \A i \in 1..Len(s) : s[i] = s[1]

\* trade['exit_date'] of a trade without one: KeyError
RaisesKeyError(ts) == \E i \in 1..Len(ts) : "exit_date" \notin DOMAIN ts[i]

\* the report of a ledger with at least one closed trade, every trade closed
FullReport(ic, ts, final_capital) ==
    LET closed_trades == SelectClosed(ts)
        winning == winning_trades(closed_trades)
        losing == losing_trades(closed_trades)
        gross_profit == RSum(Profits(winning))
        n == Len(closed_trades)
        days == total_days(ts)
        annualized_return ==
            IF days > 0
            THEN Sym("((final_capital / initial_capital) ** (365 / total_days) - 1) * 100",
                     <<RDiv(final_capital, ic), Frac(365, days)>>)
            ELSE R(0)
        returns_series == calculate_returns_series(ic, ts)
        negative_returns == SelectSeq(returns_series, LAMBDA r : RLt(r, R(0)))
        max_dd == _calculate_max_drawdown(ic, closed_trades)
        avg_win == IF winning # <<>> THEN Mean(Profits(winning)) ELSE R(0)
        avg_loss == IF losing # <<>> THEN Mean(Profits(losing)) ELSE R(0)
        win_rate == Frac(Len(winning), n)
    IN  [net_profit |-> RSub(final_capital, ic),
         total_trades |-> n,
         win_rate |-> RMul(win_rate, R(100)),
         profit_factor |-> IF gross_loss(losing) # R(0)
                                     THEN RDiv(gross_profit, gross_loss(losing))
                           ELSE Frac(1, 0),
         max_drawdown |-> max_dd,
         avg_trade |-> RDiv(RSub(final_capital, ic), R(n)),
         avg_bars_in_trade |-> Frac(SumDays(closed_trades), n),
         total_return |-> RMul(RDiv(RSub(final_capital, ic), ic), R(100)),
         annualized_return |-> annualized_return,
         cagr |-> _calculate_cagr(ic, ts, final_capital),
         monthly_returns |-> _calculate_monthly_returns(ts),
         volatility |-> Sym("std * sqrt(252) * 100", returns_series),
         sharpe_ratio |-> IF StdIsZero(returns_series) THEN R(0)
                          ELSE Sym("(mean * 252 - 0.02) / (std * sqrt(252))", returns_series),
         sortino_ratio |-> IF negative_returns = <<>> \/ StdIsZero(negative_returns) THEN R(0)
                           ELSE Sym("(mean * 252 - 0.02) / (downside std * sqrt(252))",
                                    <<returns_series, negative_returns>>),
         calmar_ratio |-> IF max_dd = R(0) THEN R(0)
                          ELSE IF annualized_return = R(0) THEN RDiv(R(0), max_dd)
                          ELSE Sym("annualized_return / max_drawdown",
                                   <<annualized_return, max_dd>>),
         avg_win |-> avg_win,
         avg_loss |-> avg_loss,
         expectancy |-> RSub(RMul(avg_win, win_rate),
                             RMul(RAbs(avg_loss), RSub(R(1), win_rate))),
         var_95 |-> _calculate_var(returns_series, 5, 100),
         var_99 |-> _calculate_var(returns_series, 1, 100),
         cvar_95 |-> _calculate_cvar(returns_series, 5, 100),
         winning_trades_count |-> Len(winning),
         losing_trades_count |-> Len(losing),
         largest_win |-> IF winning = <<>> THEN R(0)
                         ELSE Sorted(Profits(winning))[Len(winning)],
         largest_loss |-> IF losing = <<>> THEN R(0) ELSE Sorted(Profits(losing))[1],
         avg_trade_duration |-> Frac(SumDays(closed_trades), n),
         profit_distribution |-> _calculate_profit_distribution(ts),
         market_environment_performance |-> _analyze_market_environment(ts)]

KeyError == [raised |-> "KeyError"]

\* _calculate_statistics of the snapshot: the report, or KeyError when a
\* trade without exit_date is read
_calculate_statistics_snapshot(ic, ts, final_capital) ==
    IF ts = <<>> THEN _get_empty_stats
    ELSE IF SelectClosed(ts) = <<>> THEN _get_empty_stats
    ELSE IF RaisesKeyError(ts) THEN KeyError
    ELSE FullReport(ic, ts, final_capital)

\* ------------------------------------------------------------------- state
VARIABLES
    initial_capital,  \* BacktestEngine.initial_capital
    trade_details,    \* BacktestEngine.trade_details: (ticker, strategy name) -> ledger
    price_data,       \* BacktestEngine.price_data: ticker -> bars
    data,             \* run_backtest argument: the bar series
    strategy,         \* run_backtest argument: the strategy object
    ticker,           \* run_backtest argument
    df,               \* the bars with the strategy's Signal column
    pc,               \* position of the run: idle, signals, loop, store, done
    idx,              \* 1-based index of the next row of df
    position,         \* run_backtest local
    capital,          \* run_backtest local
    trades,           \* run_backtest local: the ledger
    entry_price,      \* run_backtest local
    result,           \* the report run_backtest returned, NoResult before
    raised,           \* the exception that left run_backtest, "none" otherwise
    flat_enters,      \* history: rows of this run where Enter arrived with position == 0
    completed_runs,   \* history: one record per run_backtest call that returned
    gui_pc,           \* MainWindow.run_backtest: idle, fetch, strategies, done
    symbols,          \* MainWindow.run_backtest local: the symbols typed in
    index,            \* position of the symbol loop in symbols
    strategy_pos,     \* position of the strategy loop in selected_strategies
    results,          \* local of the symbol loop: (strategy name, report) pairs
    tabs,             \* MainWindow.tabs: one (symbol, results) table per tab
    failed_symbols,   \* MainWindow.run_backtest local
    aggregated_results, \* strategy name -> symbols aggregated into the summary tab
    attempted         \* history: the (symbol, strategy, outcome) of every engine call

engine_vars == <<initial_capital, trade_details, price_data, data, strategy, ticker, df, pc,
                 idx, position, capital, trades, entry_price, result, raised, flat_enters,
                 completed_runs>>

batch_vars == <<gui_pc, symbols, index, strategy_pos, results, tabs, failed_symbols,
                aggregated_results, attempted>>

vars == <<engine_vars, batch_vars>>

\* history variable: counts the row about to be processed
EnterWhileFlat == IF df[idx].Signal = R(1) /\ position = R(0) THEN 1 ELSE 0

NoResult == [none |-> TRUE]

NoStrategy == BaseStrategy("", R(0), "", R(0))

\* MainWindow.run_backtest builds every strategy with the engine's initial capital
Strategies(cap) ==
    {BaseStrategy(n, cap, m, v) : n \in StrategyNames, m \in PositionSizingMethod, v \in SizeValues}

Bars == SeqsUpTo([Close : Prices], MaxBars)

SignalColumns(n) == {s \in SeqsUpTo(Signals, n) : Len(s) = n}

\* BacktestEngine.__init__
Init ==
    /\ initial_capital \in Capitals
    /\ trade_details = EmptyDict
    /\ price_data = EmptyDict
    /\ data = <<>>
    /\ strategy = NoStrategy
    /\ ticker = ""
    /\ df = <<>>
    /\ pc = "idle"
    /\ idx = 0
    /\ position = R(0)
    /\ capital = R(0)
    /\ trades = <<>>
    /\ entry_price = R(0)
    /\ result = NoResult
    /\ raised = "none"
    /\ flat_enters = 0
    /\ completed_runs = <<>>
    /\ gui_pc = "idle"
    /\ symbols = <<>>
    /\ index = 0
    /\ strategy_pos = 0
    /\ results = <<>>
    /\ tabs = <<>>
    /\ failed_symbols = <<>>
    /\ aggregated_results = EmptyDict
    /\ attempted = <<>>

\* run_backtest, entry: the price data is stored before anything else
run_backtest ==
    /\ pc = "idle"
    /\ \E d \in Bars, s \in Strategies(initial_capital), t \in Tickers :
          /\ data' = d
          /\ strategy' = s
          /\ ticker' = t
          /\ price_data' = (t :> d) @@ price_data
    /\ pc' = "signals"
    /\ UNCHANGED <<initial_capital, trade_details, df, idx, position, capital, trades,
                   entry_price, result, raised, flat_enters>>
    /\ UNCHANGED <<completed_runs, batch_vars>>

\* strategy.generate_signals returns the bars with a Signal column; then the
\* locals of the simulation are initialised
generate_signals ==
    /\ pc = "signals"
    /\ \E sig \in SignalColumns(Len(data)) :
          df' = [i \in 1..Len(data) |-> [Close |-> data[i].Close, Signal |-> sig[i]]]
    /\ position' = R(0)
    /\ capital' = initial_capital
    /\ trades' = <<>>
    /\ entry_price' = R(0)
    /\ idx' = 1
    /\ pc' = "loop"
    /\ UNCHANGED <<initial_capital, trade_details, price_data, data, strategy, ticker,
                   result, raised, flat_enters>>
    /\ UNCHANGED <<completed_runs, batch_vars>>

\* strategy.generate_signals raises: nothing in run_backtest catches it
generate_signals_raises ==
    /\ pc = "signals"
    /\ raised' = "StrategyError"
    /\ pc' = "done"
    /\ UNCHANGED <<initial_capital, trade_details, price_data, data, strategy, ticker, df,
                   idx, position, capital, trades, entry_price, result, flat_enters>>
    /\ UNCHANGED <<completed_runs, batch_vars>>

\* mutant of buy_signal: the position is not looked at
buy_signal_any_position(row, pos) == row.Signal = R(1)

\* mutant of buy_signal: the sign of the signal is not looked at
buy_signal_either_sign(row, pos) == RAbs(row.Signal) = R(1) /\ pos = R(0)

\* row['Signal'] == 1 and position == 0
buy_signal(row, pos) == row.Signal = R(1) /\ pos = R(0)

\* mutant of sell_signal: any negative signal closes
sell_signal_negative(row, pos) == RLt(row.Signal, R(0)) /\ pos # R(0)

\* row['Signal'] == -1 and position != 0
sell_signal(row, pos) == row.Signal = R(-1) /\ pos # R(0)

\* mutant of capital_after: the profit is not added
capital_after_unchanged(cap, profit) == cap

\* capital += trade_profit
capital_after(cap, profit) == RAdd(cap, profit)

\* mutant of last_row: the row before the last one
last_row_off_by_one(d) ==
    LET n == IF Len(d) > 1 THEN Len(d) - 1 ELSE 1 IN [date |-> n, Close |-> d[n].Close]

\* df.iloc[-1], with df.index[-1] as its timestamp
last_row(d) == [date |-> Len(d), Close |-> d[Len(d)].Close]

\* the close branch, shared by the sell branch of the loop and the close at
\* the end: profit from the locals, written into the last ledger entry
ClosedTrade(t, date, exit_price, profit) ==
    update(t, [exit_date |-> date, exit_price |-> exit_price, profit |-> profit])

\* mutant of trade_profit: the position size is left out
trade_profit_per_unit(exit_price) == RSub(exit_price, entry_price)

\* trade_profit = (exit_price - entry_price) * position
trade_profit(exit_price) == RMul(RSub(exit_price, entry_price), position)

\* loop body, buy branch
Buy ==
    /\ pc = "loop"
    /\ idx <= Len(df)
    /\ buy_signal(df[idx], position)
    /\ LET row == df[idx]
           size == get_position_size(strategy, row.Close)
       IN  /\ position' = size
           /\ entry_price' = row.Close
           /\ trades' = Append(trades, [entry_date |-> idx, entry_price |-> row.Close,
                                        position |-> size, profit |-> R(0)])
    /\ idx' = idx + 1
    /\ UNCHANGED <<initial_capital, trade_details, price_data, data, strategy, ticker, df,
                   pc, capital, result, raised>>
    /\ flat_enters' = flat_enters + EnterWhileFlat
    /\ UNCHANGED <<completed_runs, batch_vars>>

\* loop body, buy branch: strategy.get_position_size raises; nothing in
\* run_backtest catches it
get_position_size_raises ==
    /\ pc = "loop"
    /\ idx <= Len(df)
    /\ buy_signal(df[idx], position)
    /\ raised' = "StrategyError"
    /\ pc' = "done"
    /\ flat_enters' = flat_enters + EnterWhileFlat
    /\ UNCHANGED <<initial_capital, trade_details, price_data, data, strategy, ticker, df,
                   idx, position, capital, trades, entry_price, result>>
    /\ UNCHANGED <<completed_runs, batch_vars>>

\* loop body, sell branch
Sell ==
    /\ pc = "loop"
    /\ idx <= Len(df)
    /\ ~buy_signal(df[idx], position)
    /\ sell_signal(df[idx], position)
    /\ LET exit_price == df[idx].Close
       IN  /\ capital' = capital_after(capital, trade_profit(exit_price))
           /\ trades' = [trades EXCEPT ![Len(trades)] =
                            ClosedTrade(@, idx, exit_price, trade_profit(exit_price))]
    /\ position' = R(0)
    /\ idx' = idx + 1
    /\ UNCHANGED <<initial_capital, trade_details, price_data, data, strategy, ticker, df,
                   pc, entry_price, result, raised>>
    /\ flat_enters' = flat_enters + EnterWhileFlat
    /\ UNCHANGED <<completed_runs, batch_vars>>

\* loop body, neither branch taken
NoTrade ==
    /\ pc = "loop"
    /\ idx <= Len(df)
    /\ ~buy_signal(df[idx], position)
    /\ ~sell_signal(df[idx], position)
    /\ idx' = idx + 1
    /\ UNCHANGED <<initial_capital, trade_details, price_data, data, strategy, ticker, df,
                   pc, position, capital, trades, entry_price, result, raised>>
    /\ flat_enters' = flat_enters + EnterWhileFlat
    /\ UNCHANGED <<completed_runs, batch_vars>>

\* after the loop: close any open position at the last row
CloseAtEnd ==
    /\ pc = "loop"
    /\ idx > Len(df)
    /\ IF position # R(0)
       THEN LET exit_price == last_row(df).Close
            IN  /\ capital' = capital_after(capital, trade_profit(exit_price))
                /\ trades' = [trades EXCEPT ![Len(trades)] =
                                 ClosedTrade(@, last_row(df).date, exit_price,
                                             trade_profit(exit_price))]
       ELSE UNCHANGED <<capital, trades>>
    /\ pc' = "store"
    /\ UNCHANGED <<initial_capital, trade_details, price_data, data, strategy, ticker, df,
                   idx, position, entry_price, result, raised, flat_enters>>
    /\ UNCHANGED <<completed_runs, batch_vars>>

\* history: what a run was given and what it left behind
RunRecord(report) ==
    [ticker |-> ticker, strategy |-> strategy, df |-> df, trades |-> trades,
     capital |-> capital, result |-> report]

\* store the ledger under (ticker, strategy name) and return the statistics
StoreAndReturn ==
    /\ pc = "store"
    /\ trade_details' = (<<ticker, strategy.name>> :> trades) @@ trade_details
    /\ result' = _calculate_statistics(initial_capital, trades, capital)
    /\ pc' = "done"
    /\ UNCHANGED <<initial_capital, price_data, data, strategy, ticker, df, idx, position,
                   capital, trades, entry_price, raised, flat_enters>>
    /\ completed_runs' = Append(completed_runs, RunRecord(result'))
    /\ UNCHANGED batch_vars

Next ==
    \/ run_backtest
    \/ generate_signals
    \/ generate_signals_raises
    \/ Buy
    \/ get_position_size_raises
    \/ Sell
    \/ NoTrade
    \/ CloseAtEnd
    \/ StoreAndReturn

Spec == Init /\ [][Next]_vars

\* ------------------------------------------ run_backtest of the snapshot
\* the locals are initialised from the strategy's initial capital
generate_signals_snapshot ==
    /\ pc = "signals"
    /\ \E sig \in SignalColumns(Len(data)) :
          df' = [i \in 1..Len(data) |-> [Close |-> data[i].Close, Signal |-> sig[i]]]
    /\ position' = R(0)
    /\ capital' = strategy.initial_capital
    /\ trades' = <<>>
    /\ entry_price' = R(0)
    /\ idx' = 1
    /\ pc' = "loop"
    /\ UNCHANGED <<initial_capital, trade_details, price_data, data, strategy, ticker,
                   result, raised, flat_enters>>
    /\ UNCHANGED <<completed_runs, batch_vars>>

\* except Exception: the empty statistics are returned in place of the error
generate_signals_raises_snapshot ==
    /\ pc = "signals"
    /\ result' = _get_empty_stats
    /\ pc' = "done"
    /\ UNCHANGED <<initial_capital, trade_details, price_data, data, strategy, ticker, df,
                   idx, position, capital, trades, entry_price, raised, flat_enters>>
    /\ UNCHANGED <<completed_runs, batch_vars>>

\* loop body, buy branch: strategy.get_position_size raises inside the try;
\* the empty statistics are returned in place of the error
get_position_size_raises_snapshot ==
    /\ pc = "loop"
    /\ idx <= Len(df)
    /\ buy_signal(df[idx], position)
    /\ result' = _get_empty_stats
    /\ pc' = "done"
    /\ flat_enters' = flat_enters + EnterWhileFlat
    /\ UNCHANGED <<initial_capital, trade_details, price_data, data, strategy, ticker, df,
                   idx, position, capital, trades, entry_price, raised>>
    /\ UNCHANGED <<completed_runs, batch_vars>>

\* after the loop: no close of an open position, no store; the statistics
\* are returned, the empty ones if computing them raised
ReturnSnapshot ==
    /\ pc = "loop"
    /\ idx > Len(df)
    /\ LET stats == _calculate_statistics_snapshot(initial_capital, trades, capital)
       IN  result' = IF stats = KeyError THEN _get_empty_stats ELSE stats
    /\ pc' = "done"
    /\ UNCHANGED <<initial_capital, trade_details, price_data, data, strategy, ticker, df,
                   idx, position, capital, trades, entry_price, raised, flat_enters>>
    /\ UNCHANGED <<completed_runs, batch_vars>>

NextSnapshot ==
    \/ run_backtest
    \/ generate_signals_snapshot
    \/ generate_signals_raises_snapshot
    \/ Buy
    \/ get_position_size_raises_snapshot
    \/ Sell
    \/ NoTrade
    \/ ReturnSnapshot

SpecSnapshot == Init /\ [][NextSnapshot]_vars

\* ----------------------------------- _calculate_statistics on given ledgers
MaxTrades == 3

StatsProfits == {R(-200), R(0), R(50), R(100), R(300)}

StatsCapitals == {R(100), R(1000)}

\* the i-th ledger entry as the close branch leaves it: one unit bought at 1000
StatsTrade(i, profit) ==
    [entry_date |-> 2 * i - 1, entry_price |-> R(1000), position |-> R(1), profit |-> profit,
     exit_date |-> 2 * i, exit_price |-> RAdd(R(1000), profit)]

\* the i-th ledger entry as the buy branch leaves it when the size is 0: the
\* close at the end skips it
StatsOpenTrade(i) ==
    [entry_date |-> 2 * i - 1, entry_price |-> R(1000), position |-> R(0), profit |-> R(0)]

ClosedLedger(profits) == [i \in 1..Len(profits) |-> StatsTrade(i, profits[i])]

StatsLedgers ==
    LET closed == {ClosedLedger(ps) : ps \in SeqsUpTo(StatsProfits, MaxTrades)}
    IN  closed \cup {Append(l, StatsOpenTrade(Len(l) + 1)) : l \in closed}

\* an engine and the arguments run_backtest passes to _calculate_statistics
InitStats ==
    /\ initial_capital \in StatsCapitals
    /\ trades \in StatsLedgers
    /\ capital = RAdd(initial_capital, RSum(Profits(trades)))
    /\ pc = "stats"
    /\ trade_details = EmptyDict
    /\ price_data = EmptyDict
    /\ data = <<>>
    /\ strategy = NoStrategy
    /\ ticker = ""
    /\ df = <<>>
    /\ idx = 0
    /\ position = R(0)
    /\ entry_price = R(0)
    /\ result = NoResult
    /\ raised = "none"
    /\ flat_enters = 0
    /\ completed_runs = <<>>
    /\ gui_pc = "idle"
    /\ symbols = <<>>
    /\ index = 0
    /\ strategy_pos = 0
    /\ results = <<>>
    /\ tabs = <<>>
    /\ failed_symbols = <<>>
    /\ aggregated_results = EmptyDict
    /\ attempted = <<>>

\* mutant of CalculateStatistics: the open trades are dropped from the
\* caller's list
CalculateStatisticsInPlace ==
    /\ pc \in {"stats", "reported"}
    /\ result' = _calculate_statistics(initial_capital, trades, capital)
    /\ trades' = SelectClosed(trades)
    /\ pc' = IF pc = "stats" THEN "reported" ELSE "reported_twice"
    /\ UNCHANGED <<initial_capital, trade_details, price_data, data, strategy, ticker, df,
                   idx, position, capital, entry_price, raised, flat_enters>>
    /\ UNCHANGED <<completed_runs, batch_vars>>

\* a call of _calculate_statistics(trades, final_capital); the second call
\* is given the same arguments
CalculateStatistics ==
    /\ pc \in {"stats", "reported"}
    /\ result' = _calculate_statistics(initial_capital, trades, capital)
    /\ pc' = IF pc = "stats" THEN "reported" ELSE "reported_twice"
    /\ UNCHANGED <<initial_capital, trade_details, price_data, data, strategy, ticker, df,
                   idx, position, capital, trades, entry_price, raised, flat_enters>>
    /\ UNCHANGED <<completed_runs, batch_vars>>

NextStats == CalculateStatistics

SpecStats == InitStats /\ [][NextStats]_vars

\* ------------- _calculate_statistics of the snapshot on given ledgers
\* a call of the snapshot's _calculate_statistics(trades, final_capital)
CalculateStatisticsSnapshot ==
    /\ pc = "stats"
    /\ LET stats == _calculate_statistics_snapshot(initial_capital, trades, capital)
       IN  IF stats = KeyError
           THEN raised' = "KeyError" /\ result' = NoResult
           ELSE raised' = raised /\ result' = stats
    /\ pc' = "reported"
    /\ UNCHANGED <<initial_capital, trade_details, price_data, data, strategy, ticker, df,
                   idx, position, capital, trades, entry_price, flat_enters>>
    /\ UNCHANGED <<completed_runs, batch_vars>>

NextStatsSnapshot == CalculateStatisticsSnapshot

SpecStatsSnapshot == InitStats /\ [][NextStatsSnapshot]_vars

\* ------------- one run with the sizing a new BaseStrategy is built with
\* four bars that each close at 1 or at 3
DefaultBars == [1..4 -> [Close : {R(1), R(3)}]]

\* BaseStrategy.__init__: EQUITY_PERCENT at 100
DefaultStrategy(cap) == BaseStrategy("RSIStrategy", cap, "% of Equity", R(100))

InitDefault == Init /\ initial_capital = R(100)

\* run_backtest, entry, for the inputs of this specification
run_backtest_default ==
    /\ pc = "idle"
    /\ \E d \in DefaultBars, t \in Tickers :
          /\ data' = d
          /\ ticker' = t
          /\ price_data' = (t :> d) @@ price_data
    /\ strategy' = DefaultStrategy(initial_capital)
    /\ pc' = "signals"
    /\ UNCHANGED <<initial_capital, trade_details, df, idx, position, capital, trades,
                   entry_price, result, raised, flat_enters>>
    /\ UNCHANGED <<completed_runs, batch_vars>>

NextDefault ==
    \/ run_backtest_default
    \/ generate_signals
    \/ generate_signals_raises
    \/ Buy
    \/ get_position_size_raises
    \/ Sell
    \/ NoTrade
    \/ CloseAtEnd
    \/ StoreAndReturn

SpecDefault == InitDefault /\ [][NextDefault]_vars

\* ------------------- generate_signals called twice on one strategy object
StrategyBars == SeqsUpTo(StrategyRows, MaxBars)

\* the strategy objects MainWindow.run_backtest constructs
NewStrategies(cap) ==
    {FlawlessVictoryStrategy(cap, v) : v \in Versions} \cup {CustomBalancedStrategy(cap)}

\* strategy.generate_signals(data) on a new strategy object
first_call ==
    /\ pc = "idle"
    /\ \E d \in StrategyBars, s \in NewStrategies(initial_capital) :
          LET walk == SignalWalk(s, d, Len(d))
          IN  /\ data' = d
              /\ strategy' = walk.strategy
              /\ df' = walk.df
    /\ pc' = "called_once"
    /\ UNCHANGED <<initial_capital, trade_details, price_data, ticker, idx, position,
                   capital, trades, entry_price, result, raised, flat_enters>>
    /\ UNCHANGED <<completed_runs, batch_vars>>

\* strategy.generate_signals(data) again, same object, same bars; result
\* keeps the frame the first call returned
second_call ==
    /\ pc = "called_once"
    /\ LET walk == SignalWalk(strategy, data, Len(data))
       IN  /\ strategy' = walk.strategy
           /\ df' = walk.df
    /\ result' = df
    /\ pc' = "called_twice"
    /\ UNCHANGED <<initial_capital, trade_details, price_data, data, ticker, idx, position,
                   capital, trades, entry_price, raised, flat_enters>>
    /\ UNCHANGED <<completed_runs, batch_vars>>

NextSignals ==
    \/ first_call
    \/ second_call

SpecSignals == InitDefault /\ [][NextSignals]_vars

\* -------------------- one run of the engine on a FlawlessVictoryStrategy
\* run_backtest, entry, with a new FlawlessVictoryStrategy
run_backtest_flawless ==
    /\ pc = "idle"
    /\ \E d \in StrategyBars, v \in Versions, t \in Tickers :
          /\ data' = d
          /\ strategy' = FlawlessVictoryStrategy(initial_capital, v)
          /\ ticker' = t
          /\ price_data' = (t :> d) @@ price_data
    /\ pc' = "signals"
    /\ UNCHANGED <<initial_capital, trade_details, df, idx, position, capital, trades,
                   entry_price, result, raised, flat_enters>>
    /\ UNCHANGED <<completed_runs, batch_vars>>

\* df = strategy.generate_signals(data), which also moves the strategy
\* object; then the locals of the simulation are initialised
generate_signals_flawless ==
    /\ pc = "signals"
    /\ LET walk == SignalWalk(strategy, data, Len(data))
       IN  /\ strategy' = walk.strategy
           /\ df' = walk.df
    /\ position' = R(0)
    /\ capital' = initial_capital
    /\ trades' = <<>>
    /\ entry_price' = R(0)
    /\ idx' = 1
    /\ pc' = "loop"
    /\ UNCHANGED <<initial_capital, trade_details, price_data, data, ticker,
                   result, raised, flat_enters>>
    /\ UNCHANGED <<completed_runs, batch_vars>>

NextFlawless ==
    \/ run_backtest_flawless
    \/ generate_signals_flawless
    \/ Buy
    \/ Sell
    \/ NoTrade
    \/ CloseAtEnd
    \/ StoreAndReturn

SpecFlawless == InitDefault /\ [][NextFlawless]_vars

\* ------------------------------- several runs and lookups on one engine
MaxRuns == 2

StoreTickers == {"AAPL", "MSFT"}

StoreStrategyNames == {"RSIStrategy", "MACDStrategy"}

StoreBars == {<<[Close |-> R(2)], [Close |-> R(3)]>>, <<[Close |-> R(3)], [Close |-> R(2)]>>}

StoreSignalColumns == {<<R(1), R(-1)>>, <<R(1), R(0)>>, <<R(0), R(0)>>}

StoreStrategies(cap) == {BaseStrategy(n, cap, "# of Shares", R(100)) : n \in StoreStrategyNames}

InitStore == Init /\ initial_capital = R(100)

\* run_backtest, entry, for the inputs of this specification
run_backtest_store ==
    /\ pc = "idle"
    /\ Len(completed_runs) < MaxRuns
    /\ \E d \in StoreBars, s \in StoreStrategies(initial_capital), t \in StoreTickers :
          /\ data' = d
          /\ strategy' = s
          /\ ticker' = t
          /\ price_data' = (t :> d) @@ price_data
    /\ result' = NoResult
    /\ pc' = "signals"
    /\ UNCHANGED <<initial_capital, trade_details, df, idx, position, capital, trades,
                   entry_price, raised, flat_enters>>
    /\ UNCHANGED <<completed_runs, batch_vars>>

\* mutant of generate_signals_store: the capital the last run ended with is
\* carried into the next one
generate_signals_store_carries_capital ==
    /\ pc = "signals"
    /\ \E sig \in StoreSignalColumns :
          df' = [i \in 1..Len(data) |-> [Close |-> data[i].Close, Signal |-> sig[i]]]
    /\ position' = R(0)
    /\ capital' = IF completed_runs = <<>> THEN initial_capital
                  ELSE completed_runs[Len(completed_runs)].capital
    /\ trades' = <<>>
    /\ entry_price' = R(0)
    /\ idx' = 1
    /\ pc' = "loop"
    /\ UNCHANGED <<initial_capital, trade_details, price_data, data, strategy, ticker,
                   result, raised, flat_enters>>
    /\ UNCHANGED <<completed_runs, batch_vars>>

\* generate_signals and the initialisation of the locals, for the signal
\* columns of this specification
generate_signals_store ==
    /\ pc = "signals"
    /\ \E sig \in StoreSignalColumns :
          df' = [i \in 1..Len(data) |-> [Close |-> data[i].Close, Signal |-> sig[i]]]
    /\ position' = R(0)
    /\ capital' = initial_capital
    /\ trades' = <<>>
    /\ entry_price' = R(0)
    /\ idx' = 1
    /\ pc' = "loop"
    /\ UNCHANGED <<initial_capital, trade_details, price_data, data, strategy, ticker,
                   result, raised, flat_enters>>
    /\ UNCHANGED <<completed_runs, batch_vars>>

\* run_backtest has returned or raised: its arguments and locals are gone
ReturnToCaller ==
    /\ pc = "done"
    /\ pc' = "idle"
    /\ data' = <<>>
    /\ strategy' = NoStrategy
    /\ ticker' = ""
    /\ df' = <<>>
    /\ idx' = 0
    /\ position' = R(0)
    /\ capital' = R(0)
    /\ trades' = <<>>
    /\ entry_price' = R(0)
    /\ result' = NoResult
    /\ raised' = "none"
    /\ flat_enters' = 0
    /\ UNCHANGED <<initial_capital, trade_details, price_data, completed_runs>>
    /\ UNCHANGED batch_vars

\* dict.get(key, []): the default is returned, nothing is inserted
Get(store, key) == IF key \in DOMAIN store THEN store[key] ELSE <<>>

\* mutant of get_trade_details: self.trade_details[key], which makes the
\* defaultdict insert an empty list for a missing key
get_trade_details_indexing(t, n) ==
    /\ pc = "idle"
    /\ trade_details' = IF <<t, n>> \in DOMAIN trade_details THEN trade_details
                        ELSE (<<t, n>> :> <<>>) @@ trade_details
    /\ result' = [call |-> "get_trade_details", ticker |-> t, strategy_name |-> n,
                  value |-> Get(trade_details, <<t, n>>)]
    /\ UNCHANGED <<initial_capital, price_data, data, strategy, ticker, df, pc,
                   idx, position, capital, trades, entry_price, raised, flat_enters>>
    /\ UNCHANGED <<completed_runs, batch_vars>>

\* BacktestEngine.get_trade_details; result records the call and its value
get_trade_details(t, n) ==
    /\ pc = "idle"
    /\ result' = [call |-> "get_trade_details", ticker |-> t, strategy_name |-> n,
                  value |-> Get(trade_details, <<t, n>>)]
    /\ UNCHANGED <<initial_capital, trade_details, price_data, data, strategy, ticker, df, pc,
                   idx, position, capital, trades, entry_price, raised, flat_enters>>
    /\ UNCHANGED <<completed_runs, batch_vars>>

\* BacktestEngine.has_trades: bool of the list
has_trades(t, n) ==
    /\ pc = "idle"
    /\ result' = [call |-> "has_trades", ticker |-> t, strategy_name |-> n,
                  value |-> Get(trade_details, <<t, n>>) # <<>>]
    /\ UNCHANGED <<initial_capital, trade_details, price_data, data, strategy, ticker, df, pc,
                   idx, position, capital, trades, entry_price, raised, flat_enters>>
    /\ UNCHANGED <<completed_runs, batch_vars>>

NextStore ==
    \/ run_backtest_store
    \/ generate_signals_store
    \/ generate_signals_raises
    \/ Buy
    \/ get_position_size_raises
    \/ Sell
    \/ NoTrade
    \/ CloseAtEnd
    \/ StoreAndReturn
    \/ ReturnToCaller
    \/ \E t \in StoreTickers, n \in StoreStrategyNames : get_trade_details(t, n)
    \/ \E t \in StoreTickers, n \in StoreStrategyNames : has_trades(t, n)

SpecStore == InitStore /\ [][NextStore]_vars

\* ------------------------- MainWindow.run_backtest: the batch over symbols
\* (.history/gui/main_window_20241123224320.py; gui/main_window.py has the
\* same try block around the strategy loop of each symbol)
MaxSymbols == 3

SymbolNames == {"AAPL", "MSFT", "BTC/USD"}

selected_strategies == <<"RSIStrategy", "MACDStrategy">>

\* the symbols typed into the two input fields, each once
SymbolLists ==
    {l \in SeqsUpTo(SymbolNames, MaxSymbols) : \A i, j \in 1..Len(l) : l[i] = l[j] => i = j}

\* the ledgers an engine run of the batch may leave
BatchLedgers == {<<>>, ClosedLedger(<<R(50)>>), ClosedLedger(<<R(-200)>>)}

\* symbols is empty: a warning and return; otherwise a new engine and the
\* locals of the batch
StartBatch ==
    /\ gui_pc = "idle"
    /\ symbols' \in SymbolLists
    /\ tabs' = <<>>
    /\ gui_pc' = IF symbols' = <<>> THEN "done" ELSE "fetch"
    /\ trade_details' = EmptyDict
    /\ price_data' = EmptyDict
    /\ aggregated_results' = EmptyDict
    /\ failed_symbols' = <<>>
    /\ index' = 1
    /\ UNCHANGED <<strategy_pos, results, attempted>>
    /\ UNCHANGED <<initial_capital, data, strategy, ticker, df, pc, idx, position, capital,
                   trades, entry_price, result, raised, flat_enters, completed_runs>>

\* the data of the symbol is fetched
FetchData ==
    /\ gui_pc = "fetch"
    /\ index <= Len(symbols)
    /\ results' = <<>>
    /\ strategy_pos' = 1
    /\ gui_pc' = "strategies"
    /\ UNCHANGED <<symbols, index, tabs, failed_symbols, aggregated_results, attempted>>
    /\ UNCHANGED engine_vars

\* the fetch raises or returns an empty frame: failed_symbols.append, continue
FetchDataFails ==
    /\ gui_pc = "fetch"
    /\ index <= Len(symbols)
    /\ failed_symbols' = Append(failed_symbols, symbols[index])
    /\ index' = index + 1
    /\ UNCHANGED <<gui_pc, symbols, strategy_pos, results, tabs, aggregated_results,
                   attempted>>
    /\ UNCHANGED engine_vars

\* agg['symbols'].append(symbol) of the entry of the strategy
Aggregate(agg, name, symbol) ==
    (name :> Append(IF name \in DOMAIN agg THEN agg[name] ELSE <<>>, symbol)) @@ agg

\* one strategy of the loop: the engine run returns, its report is appended
\* to results and aggregated
RunStrategy ==
    /\ gui_pc = "strategies"
    /\ strategy_pos <= Len(selected_strategies)
    /\ \E ledger \in BatchLedgers :
          LET name == selected_strategies[strategy_pos]
              symbol == symbols[index]
              report == _calculate_statistics(initial_capital, ledger,
                                              RAdd(initial_capital, RSum(Profits(ledger))))
          IN  /\ trade_details' = (<<symbol, name>> :> ledger) @@ trade_details
              /\ results' = Append(results, <<name, report>>)
              /\ aggregated_results' = Aggregate(aggregated_results, name, symbol)
              /\ attempted' = Append(attempted, [index |-> index, strategy |-> name,
                                                 outcome |-> "returned", report |-> report])
    /\ strategy_pos' = strategy_pos + 1
    /\ UNCHANGED <<gui_pc, symbols, index, tabs, failed_symbols>>
    /\ UNCHANGED <<initial_capital, price_data, data, strategy, ticker, df, pc, idx, position,
                   capital, trades, entry_price, result, raised, flat_enters,
                   completed_runs>>

\* one strategy of the loop: the engine run (or the aggregation of its
\* report) raises; the except of the symbol's try block appends the symbol
\* to failed_symbols and continues with the next symbol
RunStrategyRaises ==
    /\ gui_pc = "strategies"
    /\ strategy_pos <= Len(selected_strategies)
    /\ attempted' = Append(attempted, [index |-> index,
                                       strategy |-> selected_strategies[strategy_pos],
                                       outcome |-> "raised", report |-> NoResult])
    /\ failed_symbols' = Append(failed_symbols, symbols[index])
    /\ index' = index + 1
    /\ gui_pc' = "fetch"
    /\ UNCHANGED <<symbols, strategy_pos, results, tabs, aggregated_results>>
    /\ UNCHANGED engine_vars

\* after the strategy loop: the table is filled from results and added as
\* the tab of the symbol
AddTab ==
    /\ gui_pc = "strategies"
    /\ strategy_pos > Len(selected_strategies)
    /\ tabs' = Append(tabs, [index |-> index, symbol |-> symbols[index], rows |-> results])
    /\ index' = index + 1
    /\ gui_pc' = "fetch"
    /\ UNCHANGED <<symbols, strategy_pos, results, failed_symbols, aggregated_results,
                   attempted>>
    /\ UNCHANGED engine_vars

\* after the symbol loop: the summary tab and the message on failed symbols
FinishBatch ==
    /\ gui_pc = "fetch"
    /\ index > Len(symbols)
    /\ gui_pc' = "done"
    /\ UNCHANGED <<symbols, index, strategy_pos, results, tabs, failed_symbols,
                   aggregated_results, attempted>>
    /\ UNCHANGED engine_vars

NextBatch ==
    \/ StartBatch
    \/ FetchData
    \/ FetchDataFails
    \/ RunStrategy
    \/ RunStrategyRaises
    \/ AddTab
    \/ FinishBatch

SpecBatch == Init /\ [][NextBatch]_vars

\* ------------------------------------------------------------------ claims
InRun == pc \in {"loop", "store", "done"} /\ raised = "none"

Returned == pc = "done" /\ raised = "none"

IsClosed(t) == "exit_date" \in DOMAIN t /\ "exit_price" \in DOMAIN t

\* C1: an Enter (+1) that arrives while a position is open changes nothing
\* (ledger, position, entry price and capital stay), and the ledger never
\* holds more trades than there were rows with Enter while Flat.
C1_EnterWhileOpenIgnored ==
    /\ [](InRun => Len(trades) <= flat_enters)
    /\ [][(pc = "loop" /\ idx <= Len(df) /\ df[idx].Signal = R(1) /\ position # R(0))
            => /\ trades' = trades
               /\ position' = position
               /\ entry_price' = entry_price
               /\ capital' = capital]_vars

\* C1 witness: the previous row carried Enter, and the open trade is an older one
C1_Witness ==
    /\ pc = "loop" /\ idx > 2
    /\ df[idx - 1].Signal = R(1)
    /\ position # R(0)
    /\ trades # <<>>
    /\ trades[Len(trades)].entry_date < idx - 1
    /\ ~IsClosed(trades[Len(trades)])

\* C2: when the run has returned, every trade of the ledger has its exit
\* timestamp and exit price set, also when the sizer returned zero.
C2_NoOpenTradeReturned == Returned => \A i \in 1..Len(trades) : IsClosed(trades[i])

\* C3: every trade with entry and exit fields has
\* profit = (exit_price - entry_price) * position, whichever way it was closed.
C3_ProfitFormula ==
    InRun => \A i \in 1..Len(trades) :
                IsClosed(trades[i]) =>
                    trades[i].profit =
                        RMul(RSub(trades[i].exit_price, trades[i].entry_price), trades[i].position)

\* C3 witness: a returned ledger with a trade closed by an Exit signal at a
\* profit or loss, followed by a trade closed at the end of the series
C3_Witness ==
    /\ Returned
    /\ Len(trades) = 2
    /\ IsClosed(trades[1]) /\ IsClosed(trades[2])
    /\ df[trades[1].exit_date].Signal = R(-1)
    /\ trades[1].profit # R(0)
    /\ df[trades[2].exit_date].Signal # R(-1)

\* C4: a position still open after the last row is closed at the last row's
\* close and timestamp; the profit goes to capital and into the last ledger
\* entry, as in the sell branch.
C4_ForcedClose ==
    [][(pc = "loop" /\ idx > Len(df) /\ position # R(0))
        => LET n == Len(trades)
               exit_price == df[Len(df)].Close
               profit == RMul(RSub(exit_price, trades[n].entry_price), trades[n].position)
           IN  /\ Len(trades') = n
               /\ \A i \in 1..(n - 1) : trades'[i] = trades[i]
               /\ trades'[n].exit_price = exit_price
               /\ trades'[n].exit_date = Len(df)
               /\ trades'[n].profit = profit
               /\ trades'[n].entry_price = trades[n].entry_price
               /\ trades'[n].entry_date = trades[n].entry_date
               /\ trades'[n].position = trades[n].position
               /\ capital' = RAdd(capital, profit)]_vars

\* C4 witness: the series has ended, the last trade was entered on an earlier
\* row, no Exit came on the last row, and it was closed there at a profit or loss
C4_Witness ==
    /\ pc = "store"
    /\ trades # <<>>
    /\ IsClosed(trades[Len(trades)])
    /\ trades[Len(trades)].exit_date = Len(df)
    /\ trades[Len(trades)].entry_date < Len(df)
    /\ df[Len(df)].Signal # R(-1)
    /\ trades[Len(trades)].profit # R(0)
    /\ capital # initial_capital

\* the strategy's sizer applied to capital c and a price
SizerOn(c, price) == get_position_size([strategy EXCEPT !.capital = c], price)

\* C5: each time a position is opened, its size is the position sizer applied
\* to the simulator's current capital and the Enter row's close.
C5_SizedOnCurrentCapital ==
    [][(pc = "loop" /\ idx <= Len(df) /\ df[idx].Signal = R(1) /\ position = R(0))
        => position' = SizerOn(capital, df[idx].Close)]_vars

InvalidInput == pc # "idle" /\ (data = <<>> \/ RLe(initial_capital, R(0)))

\* C6: on an empty bar series or initial_capital <= 0 the run simulates
\* nothing and ends with InvalidInputError, without a report or a stored ledger.
C6_InvalidInputRejected ==
    (InvalidInput /\ pc = "done" /\ raised # "StrategyError") =>
        /\ raised = "InvalidInputError"
        /\ result = NoResult
        /\ trade_details = EmptyDict

\* C7: after every row capital = initial_capital + the sum of the ledger's
\* profit fields, an open trade carrying profit 0; the returned report's
\* net_profit is that sum.
C7_CapitalIsInitialPlusProfits ==
    /\ InRun =>
          /\ capital = RAdd(initial_capital, RSum(Profits(trades)))
          /\ \A i \in 1..Len(trades) : ~IsClosed(trades[i]) => trades[i].profit = R(0)
    /\ Returned =>
          /\ RSub(capital, initial_capital) = RSum(Profits(trades))
          /\ result.net_profit = RSum(Profits(trades))

\* C7 witness: a returned run whose closed trades changed capital
C7_Witness ==
    /\ Returned
    /\ trades # <<>>
    /\ capital # initial_capital
    /\ result.net_profit # R(0)

NoEnterSignal == \A i \in 1..Len(df) : df[i].Signal # R(1)

\* C8: without any Enter signal the ledger is empty, the final capital is the
\* initial capital and every field of the report is zero.
C8_NoEnterNoTrades ==
    (Returned /\ NoEnterSignal) =>
        /\ trades = <<>>
        /\ trade_details[<<ticker, strategy.name>>] = <<>>
        /\ capital = initial_capital
        /\ DOMAIN result = {"net_profit", "total_trades", "win_rate", "profit_factor",
                            "max_drawdown", "avg_trade", "avg_bars_in_trade"}
        /\ result.total_trades = 0
        /\ \A k \in DOMAIN result \ {"total_trades"} : result[k] = R(0)

\* C8 witness: a returned run over rows that carry Exit and Hold but no Enter
C8_Witness ==
    /\ Returned
    /\ NoEnterSignal
    /\ \E i \in 1..Len(df) : df[i].Signal = R(-1)
    /\ \E i \in 1..Len(df) : df[i].Signal = R(0)

\* C9: during the loop every ledger trade but the last is closed, and the
\* last one is open exactly when position != 0; after the end of the series
\* every trade is closed.
C9_LedgerMatchesPosition ==
    /\ (InRun /\ pc = "loop") =>
          /\ \A i \in 1..(Len(trades) - 1) : IsClosed(trades[i])
          /\ trades = <<>> => position = R(0)
          /\ trades # <<>> => (~IsClosed(trades[Len(trades)]) <=> position # R(0))
    /\ (InRun /\ pc # "loop") => \A i \in 1..Len(trades) : IsClosed(trades[i])

\* a ledger with one closed trade, to name the fields a non-empty ledger's
\* report has
OneClosedTrade ==
    <<[entry_date |-> 1, entry_price |-> R(2), position |-> R(1), profit |-> R(1),
       exit_date |-> 2, exit_price |-> R(3)]>>

\* the zero of a report field: 0 for a count, 0.0 for a number, {} for a mapping
IsZeroField(k, v) ==
    IF k \in {"total_trades", "winning_trades_count", "losing_trades_count"} THEN v = 0
    ELSE v = R(0) \/ v = EmptyDict

\* C10: for a ledger without a closed trade the statistics engine (the
\* snapshot with the full set of metrics) returns a report that has every
\* field the report of a non-empty ledger has, each at zero.
C10_ZeroReportHasEveryField ==
    (Returned /\ idx > Len(df) /\ SelectClosed(trades) = <<>>) =>
        /\ DOMAIN result =
              DOMAIN _calculate_statistics_snapshot(R(100), OneClosedTrade, R(101))
        /\ \A k \in DOMAIN result : IsZeroField(k, result[k])

\* ------------------------------------------------ claims on the statistics
Reported == pc \in {"reported", "reported_twice"}

ClosedProfits == Profits(SelectClosed(trades))

Positive(ps) == SelectSeq(ps, LAMBDA x : RGt(x, R(0)))

NonPositive(ps) == SelectSeq(ps, LAMBDA x : ~RGt(x, R(0)))

\* C11: for a ledger with a closed trade profit_factor is a finite number,
\* gross_profit / gross_loss, also when every trade that is not a win made
\* exactly 0.
C11_ProfitFactorFinite ==
    (Reported /\ ClosedProfits # <<>>) =>
        LET gp == RSum(Positive(ClosedProfits))
            gl == IF NonPositive(ClosedProfits) = <<>> THEN R(1)
                  ELSE RAbs(RSum(NonPositive(ClosedProfits)))
        IN  /\ result.profit_factor.den # 0
            /\ result.profit_factor = RDiv(gp, gl)

\* C12: with closed trades and no losing trade, profit_factor is the gross
\* profit (gross_loss is taken as 1) and win_rate is 100; profits +50 and
\* +100 give profit_factor 150.
C12_NoLosersProfitFactor ==
    (Reported /\ ClosedProfits # <<>> /\ NonPositive(ClosedProfits) = <<>>) =>
        /\ result.profit_factor = RSum(ClosedProfits)
        /\ result.win_rate = R(100)
        /\ ClosedProfits = <<R(50), R(100)>> => result.profit_factor = R(150)

C12_Witness ==
    /\ Reported
    /\ ClosedProfits = <<R(50), R(100)>>
    /\ result.profit_factor = R(150)
    /\ result.win_rate = R(100)

\* equity after the i-th closed trade
EquityPoint(i) == RAdd(initial_capital, RSum(SubSeq(ClosedProfits, 1, i)))

\* the largest of initial_capital and the equity points up to the i-th
PeakAt(i) ==
    LET seen == {initial_capital} \cup {EquityPoint(j) : j \in 1..i}
    IN  CHOOSE m \in seen : \A x \in seen : RLe(x, m)

DrawdownAt(i) == RMul(RDiv(RSub(PeakAt(i), EquityPoint(i)), PeakAt(i)), R(100))

\* C13: max_drawdown is the largest (peak - equity) / peak * 100 over the
\* equity points after each closed trade, peak being the running maximum of
\* initial_capital and the points so far; capital 1000 with equity points
\* 1100, 900, 1200 gives 200/1100*100.
C13_MaxDrawdownFormula ==
    (Reported /\ ClosedProfits # <<>>) =>
        LET all == {DrawdownAt(i) : i \in 1..Len(ClosedProfits)}
        IN  /\ result.max_drawdown \in all
            /\ \A d \in all : RLe(d, result.max_drawdown)
            /\ (initial_capital = R(1000) /\ ClosedProfits = <<R(100), R(-200), R(300)>>)
                  => result.max_drawdown = Frac(200 * 100, 1100)

C13_Witness ==
    /\ Reported
    /\ initial_capital = R(1000)
    /\ ClosedProfits = <<R(100), R(-200), R(300)>>
    /\ result.max_drawdown = Frac(200, 11)

\* s never goes down
NonDecreasing(s) == \A i \in 1..Len(s) - 1 : RLe(s[i], s[i + 1])

EquityPoints == [i \in 1..Len(ClosedProfits) |-> EquityPoint(i)]

\* C14 as stated: max_drawdown >= 0, and it is 0 exactly when the equity
\* curve, one point per closed trade, never goes down.
C14_ZeroIffCurveNonDecreasing ==
    Reported =>
        /\ RLe(R(0), result.max_drawdown)
        /\ result.max_drawdown = R(0) <=> NonDecreasing(EquityPoints)

\* C14, amended: max_drawdown >= 0, and it is 0 exactly when the sequence
\* that starts with initial_capital and continues with the equity point of
\* each closed trade never goes down.
C14_ZeroIffNonDecreasingFromCapital ==
    Reported =>
        /\ RLe(R(0), result.max_drawdown)
        /\ result.max_drawdown = R(0) <=> NonDecreasing(<<initial_capital>> \o EquityPoints)

\* a first trade that loses and a later one that wins: the curve of the
\* trades alone rises, the drawdown against the capital is not 0
C14_Witness ==
    /\ Reported
    /\ ClosedProfits = <<R(-200), R(50)>>
    /\ result.max_drawdown # R(0)

\* C15: win_rate is 100 * (closed trades with profit > 0) / (closed trades);
\* a run whose single trade enters at a close and exits at a lower one reports
\* one closed trade with those two prices, a negative net_profit and win_rate 0.
C15_WinRate ==
    (Returned /\ SelectClosed(trades) # <<>>) =>
        LET closed == SelectClosed(trades)
            wins == Cardinality({i \in 1..Len(closed) : RGt(closed[i].profit, R(0))})
        IN  /\ result.win_rate = Frac(100 * wins, Len(closed))
            /\ (/\ Len(trades) = 1
                /\ RLt(trades[1].exit_price, trades[1].entry_price)
                /\ RGt(trades[1].position, R(0)))
                  => /\ result.total_trades = 1
                     /\ trades[1].entry_price = df[trades[1].entry_date].Close
                     /\ trades[1].exit_price = df[trades[1].exit_date].Close
                     /\ RLt(result.net_profit, R(0))
                     /\ result.win_rate = R(0)

C15_Witness ==
    /\ Returned
    /\ Len(trades) = 1
    /\ IsClosed(trades[1])
    /\ trades[1].entry_price = R(3)
    /\ trades[1].exit_price = R(2)
    /\ RGt(trades[1].position, R(0))
    /\ result.total_trades = 1
    /\ RLt(result.net_profit, R(0))
    /\ result.win_rate = R(0)

StrategyFailed == pc = "done" /\ idx <= Len(df)

\* C17: an error raised by the strategy's signal generation or position
\* sizing leaves run_backtest as that error; no report, zero or otherwise, is
\* returned in its place.
C17_StrategyErrorPropagates ==
    StrategyFailed => raised = "StrategyError" /\ result = NoResult

\* the engine was called for the symbol at position i
DataFetched(i) == \E k \in 1..Len(attempted) : attempted[k].index = i

\* C18: in a batch the failure of one symbol/strategy run stops or discards
\* no other run: every strategy of a symbol with data is run, the report of
\* every run that returned is shown in the tab of its symbol, and a symbol
\* reported as failed appears in no tab and in no aggregate of the summary.
C18_BatchIsolation ==
    gui_pc = "done" =>
        /\ \A i \in 1..Len(symbols) : DataFetched(i) =>
              \A p \in 1..Len(selected_strategies) :
                 \E k \in 1..Len(attempted) :
                    attempted[k].index = i /\ attempted[k].strategy = selected_strategies[p]
        /\ \A k \in 1..Len(attempted) : attempted[k].outcome = "returned" =>
              \E t \in 1..Len(tabs) :
                 /\ tabs[t].index = attempted[k].index
                 /\ \E r \in 1..Len(tabs[t].rows) :
                       tabs[t].rows[r] = <<attempted[k].strategy, attempted[k].report>>
        /\ \A f \in 1..Len(failed_symbols) :
              /\ \A t \in 1..Len(tabs) : tabs[t].symbol # failed_symbols[f]
              /\ \A n \in DOMAIN aggregated_results :
                    \A j \in 1..Len(aggregated_results[n]) :
                       aggregated_results[n][j] # failed_symbols[f]

\* the ledger of the last completed run for (t, n), empty if there is none
LatestLedger(t, n) ==
    LET ks == {k \in 1..Len(completed_runs) :
                  completed_runs[k].ticker = t /\ completed_runs[k].strategy.name = n}
    IN  IF ks = {} THEN <<>>
        ELSE completed_runs[CHOOSE k \in ks : \A j \in ks : j <= k].trades

\* C19: the store holds, for each key, the ledger of the most recent
\* completed run for exactly that key and no entry for any other key; a
\* lookup returns that ledger (has_trades: whether it is non-empty), empty
\* for a key without a run, and adds or changes no entry.
C19_StoreHoldsLatestLedger ==
    /\ DOMAIN trade_details =
          {<<completed_runs[k].ticker, completed_runs[k].strategy.name>> :
              k \in 1..Len(completed_runs)}
    /\ \A key \in DOMAIN trade_details : trade_details[key] = LatestLedger(key[1], key[2])
    /\ (pc = "idle" /\ result # NoResult) =>
          LET ledger == LatestLedger(result.ticker, result.strategy_name)
          IN  result.value = IF result.call = "get_trade_details" THEN ledger
                             ELSE ledger # <<>>

\* two runs for one key with different ledgers, a run for no other key, and
\* a lookup of the key afterwards
C19_Witness ==
    /\ pc = "idle"
    /\ Len(completed_runs) = 2
    /\ completed_runs[1].ticker = completed_runs[2].ticker
    /\ completed_runs[1].strategy.name = completed_runs[2].strategy.name
    /\ completed_runs[1].trades # completed_runs[2].trades
    /\ result # NoResult
    /\ result.call = "get_trade_details"
    /\ result.ticker = completed_runs[2].ticker
    /\ result.strategy_name = completed_runs[2].strategy.name
    /\ result.value = completed_runs[2].trades

\* the sizing of a strategy, its name left out
Sizing(st) == <<st.capital, st.position_sizing_method, st.position_size_value>>

\* C20: every run on an engine starts Flat with capital equal to the
\* engine's initial capital and an empty ledger, and two runs on the same
\* bars and signals leave the same ledger, final capital and report whatever
\* an earlier run gained or lost.
C20_RunsIndependent ==
    /\ (pc = "loop" /\ idx = 1) =>
          position = R(0) /\ capital = initial_capital /\ trades = <<>>
    /\ \A i, j \in 1..Len(completed_runs) :
          (/\ completed_runs[i].df = completed_runs[j].df
           /\ Sizing(completed_runs[i].strategy) = Sizing(completed_runs[j].strategy))
             => /\ completed_runs[i].trades = completed_runs[j].trades
                /\ completed_runs[i].capital = completed_runs[j].capital
                /\ completed_runs[i].result = completed_runs[j].result

\* a run that gained, then a run on the same bars and signals
C20_Witness ==
    /\ Len(completed_runs) = 2
    /\ completed_runs[1].capital # initial_capital
    /\ completed_runs[2].df = completed_runs[1].df
    /\ completed_runs[2].capital = completed_runs[1].capital
    /\ completed_runs[2].result = completed_runs[1].result

\* C22: the statistics engine never raises on thin data: for a ledger of
\* zero, one or a few trades, one whose last trade is still open after closed
\* ones included, it returns a report.
C22_NeverRaisesOnThinData ==
    pc = "reported" => raised = "none" /\ result # NoResult

\* the periodic returns of the closed trades of the ledger
ReturnsOfLedger == calculate_returns_series(initial_capital, SelectClosed(trades))

\* the returns at or below -var_95
TailOfLedger ==
    SelectSeq(ReturnsOfLedger, LAMBDA r : RLe(r, RSub(R(0), result.var_95)))

\* C23: cvar_95 is the absolute value of the mean of the periodic returns at
\* or below -var_95, and 0 when there is no such return or no return at all.
C23_CvarOfTail ==
    (pc = "reported" /\ raised = "none" /\ "cvar_95" \in DOMAIN result) =>
        result.cvar_95 = IF TailOfLedger = <<>> THEN R(0) ELSE RAbs(Mean(TailOfLedger))

\* C24: the equity curve of a ledger has one point per closed trade, in
\* ledger order, the i-th being initial_capital plus the profits of the closed
\* trades up to the i-th; for the ledger of a run its last point is the run's
\* final capital.
C24_EquityCurve ==
    Returned =>
        LET closed == SelectClosed(trades)
            curve == equity_curve(initial_capital, closed)
        IN  /\ Len(curve) = Len(closed)
            /\ \A i \in 1..Len(curve) :
                  curve[i] = RAdd(initial_capital, RSum(Profits(SubSeq(closed, 1, i))))
            /\ curve # <<>> => curve[Len(curve)] = capital

\* two closed trades, the first with a gain
C24_Witness ==
    /\ Returned
    /\ Len(SelectClosed(trades)) = 2
    /\ RGt(trades[1].profit, R(0))
    /\ equity_curve(initial_capital, SelectClosed(trades))[2] = capital
    /\ capital # initial_capital

\* the row about to be processed takes neither branch by the claim's account
NoOpRow ==
    \/ df[idx].Signal = R(0)
    \/ df[idx].Signal = R(-1) /\ position = R(0)
    \/ df[idx].Signal = R(1) /\ position # R(0)
    \/ df[idx].Signal \notin {R(1), R(-1)}

\* C25: a Hold bar, an Exit while Flat, an Enter while Open and a signal that
\* is neither +1 nor -1 leave position, capital, entry price and ledger as
\* they are; an Exit while Flat opens no short position.
C25_NoOpRows ==
    [][(pc = "loop" /\ idx <= Len(df) /\ NoOpRow /\ raised' = "none") =>
          /\ <<position, capital, entry_price, trades>>' =
                <<position, capital, entry_price, trades>>
          /\ idx' = idx + 1]_vars

\* every kind of such row has been passed in one run or another: here an
\* Enter while Open followed by a fractional signal
C25_Witness ==
    /\ pc = "loop"
    /\ idx = 4
    /\ df[1].Signal = R(1)
    /\ df[2].Signal = R(1)
    /\ df[3].Signal = Frac(-1, 2)
    /\ position # R(0)
    /\ Len(trades) = 1

\* C26: a closed trade is winning when profit > 0 and losing when
\* profit <= 0; the two counts add up to total_trades and, when there is a
\* losing trade, gross_profit - gross_loss is the sum of the closed profits.
C26_WinLossPartition ==
    (Reported /\ ClosedProfits # <<>>) =>
        LET closed == SelectClosed(trades)
            w == winning_trades(closed)
            l == losing_trades(closed)
        IN  /\ Len(w) + Len(l) = result.total_trades
            /\ Len(w) = Len(Positive(ClosedProfits))
            /\ Len(l) = Len(NonPositive(ClosedProfits))
            /\ l # <<>> => RSub(RSum(Profits(w)), gross_loss(l)) = RSum(ClosedProfits)

\* a win, a loss and a break-even trade
C26_Witness ==
    /\ Reported
    /\ ClosedProfits = <<R(100), R(-200), R(0)>>
    /\ result.total_trades = 3
    /\ Len(losing_trades(SelectClosed(trades))) = 2

\* C27: in a returned ledger the trades are in strictly increasing entry
\* order and do not overlap: each exit is later than its entry and earlier
\* than the next entry; only a trade opened on the last bar and closed there
\* with profit 0 has exit = entry.
C27_TradesOrdered ==
    Returned =>
        \A i \in 1..Len(trades) :
           /\ IsClosed(trades[i])
           /\ trades[i].entry_date <= trades[i].exit_date
           /\ trades[i].entry_date = trades[i].exit_date =>
                 trades[i].entry_date = Len(df) /\ trades[i].profit = R(0)
           /\ i < Len(trades) =>
                 /\ trades[i].exit_date < trades[i + 1].entry_date
                 /\ trades[i].entry_date < trades[i + 1].entry_date

\* C29: a run that raises leaves the stored price data and the stored
\* ledgers as they were before it, here those of a new engine.
C29_RaisedRunLeavesStores ==
    (pc = "done" /\ raised # "none") =>
        price_data = EmptyDict /\ trade_details = EmptyDict

\* C28: with percent-of-equity sizing at 100% and positive closes the capital
\* of a run is never negative, and the reported max_drawdown is at most 100.
C28_CapitalNeverNegative ==
    InRun =>
        /\ ~RLt(capital, R(0))
        /\ Returned => RLe(result.max_drawdown, R(100))

SignalsOf(frame) == [i \in 1..Len(frame) |-> frame[i].Signal]

\* C21: generate_signals called twice on the same strategy object with the
\* same bars returns the same per-bar signals, also when the first call
\* ended with the strategy in a position.
C21_SignalsRepeat ==
    pc = "called_twice" => SignalsOf(df) = SignalsOf(result)

\* the signals of df that are not 0, in row order
EmittedSignals == SelectSeq(SignalsOf(df), LAMBDA x : x # R(0))

\* the rows of df among the first k that carry the signal
RowsWith(signal, k) == {i \in 1..k : df[i].Signal = signal}

\* C30: the +1 and -1 signals of a new FlawlessVictoryStrategy with a
\* non-zero position size alternate, starting with +1; the engine opens a
\* trade on every +1 and closes one on every -1, and after each bar the
\* engine is Flat exactly when the strategy was flat after that bar.
C30_FlawlessMirrorsEngine ==
    (pc = "loop" /\ strategy.name = "FlawlessVictoryStrategy") =>
        /\ \A j \in 1..Len(EmittedSignals) :
              EmittedSignals[j] = IF j % 2 = 1 THEN R(1) ELSE R(-1)
        /\ Len(trades) = Cardinality(RowsWith(R(1), idx - 1))
        /\ Len(SelectClosed(trades)) = Cardinality(RowsWith(R(-1), idx - 1))
        /\ idx > 1 => (position = R(0) <=> df[idx - 1].strategy_position = R(0))

\* an entry, a stop of version 2 and a second entry have been simulated
C30_Witness ==
    /\ pc = "loop"
    /\ strategy.name = "FlawlessVictoryStrategy"
    /\ strategy.version = 2
    /\ idx = 4
    /\ SignalsOf(df) = <<R(1), R(-1), R(1)>>
    /\ data[2].entry_cond = "none"
    /\ Len(trades) = 2
    /\ position # R(0)

====
